---- MODULE Spec2Model ----
(***************************************************************************)
(* Smart-capture pipeline of PhotoVault's dashboard uploader               *)
(* (static/js/dashboard.js, class PhotoVaultUploader): camera session      *)
(* life cycle, the periodic detection tick (edge/contour detection, focus  *)
(* scoring, motion/stability tracking, overlay), capture and perspective   *)
(* rectification.                                                          *)
(*                                                                         *)
(* JavaScript runs every handler to completion, so each handler, timer     *)
(* callback and promise continuation is one atomic action.  The browser    *)
(* (timers, getUserMedia, the video element, canvas.toBlob, fetch) and     *)
(* OpenCV.js are the environment: their results are inputs drawn with \E.  *)
(***************************************************************************)
EXTENDS Integers, Sequences, FiniteSets, TLC

(***************************************************************************)
(* Program constants                                                       *)
(***************************************************************************)
focusThreshold == 100
motionThreshold == 5000
stabilityRequiredFrames == 10
edgeMinArea == 5000

(***************************************************************************)
(* Bounds of the model                                                     *)
(***************************************************************************)
\* startCamera continuations (resolved getUserMedia requests) explored; each
\* one adds a loadedmetadata listener that is never removed.
MaxStarts == 2
\* the stability counter grows without limit while nothing moves; ticks that
\* would push it past this value are not explored.
MaxStabilityFrames == 11
\* the same cap in the specifications that follow whole camera sessions
MaxSessionFrames == 1
\* largest coordinate of the corners handed to the rectifier
MaxCoord == 2
\* most contours in a frame handed to contour selection
MaxContours == 2
\* toggle calls of the enhanced camera followed in one run
MaxModeCalls == 6
\* getUserMedia requests pending at once, and loadedmetadata listeners, where
\* overlapping startCamera calls are followed
MaxStreams == 3
\* capture methods of the enhanced camera followed in progress at once
MaxActiveCaptures == 2
\* exit timeouts of the enhanced camera pending at once
MaxPendingExits == 1
\* files added to the upload form in one run
MaxFiles == 3

(***************************************************************************)
(* Values                                                                  *)
(***************************************************************************)
Null == "null"
\* lastDetectedCorners = null and lastFrameData = null: the empty sequence,
\* a stored value being a non-empty one.
NoCorners == <<>>
NoFrame == <<>>

Pt(px, py) == [x |-> px, y |-> py]

\* video.videoWidth / videoHeight: 0 x 0 until metadata has loaded and after
\* srcObject is cleared; two camera resolutions otherwise.
NoDim == [w |-> 0, h |-> 0]
VideoDims == {[w |-> 640, h |-> 480], [w |-> 1280, h |-> 720]}

\* A grayscale frame is abstracted to its size and one intensity total, so
\* that cv.absdiff + cv.sumElems of two frames of equal size is the absolute
\* difference of the totals.
GrayLevels == {0, 5000, 5001}

\* Laplacian variances a frame can have (around focusThreshold).
Variances == {100, 101}

\* Quadrilaterals that cv.approxPolyDP returns for the contours of a frame.
QuadA == <<Pt(0, 0), Pt(2, 0), Pt(2, 2), Pt(0, 2)>>
QuadB == <<Pt(1, 0), Pt(2, 1), Pt(1, 2), Pt(0, 1)>>
Triangle == <<Pt(0, 0), Pt(2, 0), Pt(1, 2)>>

\* A contour as the tick sees it: cv.contourArea and the approximation.
Contour(a, p) == [area |-> a, approx |-> p]

\* Contour lists (cv.findContours, in traversal order) of the frames fed to
\* the pipeline.
ContourLists ==
    { <<>>,
      <<Contour(5000, QuadA)>>,
      <<Contour(5001, QuadA)>>,
      <<Contour(9000, Triangle), Contour(6000, QuadB)>> }

Frames ==
    [gray : GrayLevels, variance : Variances, contours : ContourLists]

\* Frames for the tracker: every gray level, nothing to detect.
TrackerFrames ==
    [gray : GrayLevels, variance : {101}, contours : {<<>>}]

\* Corner lists handed to the rectifier: points of a small grid.
GridPoints == {Pt(px, py) : px \in 0..MaxCoord, py \in 0..MaxCoord}
CornerInputs == [1..4 -> GridPoints] \cup [1..3 -> GridPoints]

\* The frames and the video size fed to the specification of all handlers.
SessionFrames ==
    [gray : {0, 5001}, variance : {101},
     contours : {<<>>, <<Contour(5001, QuadA)>>}]
SessionDims == {[w |-> 640, h |-> 480]}

\* Contour lists handed to contour selection: every list of up to MaxContours
\* contours with an area around edgeMinArea and one of the three shapes.
SelectContours ==
    {Contour(a, p) : a \in {4999, 5000, 5001, 6000},
                     p \in {QuadA, QuadB, Triangle}}
ContourInputs == UNION {[1..n -> SelectContours] : n \in 0..MaxContours}

\* The frames fed to the specification of the detection tick: contours
\* below the minimum area, or one above it, of four vertices or of three;
\* sharp or blurred; still or moved.
DetectFrames ==
    [gray : {0, 5001}, variance : Variances,
     contours : { <<Contour(4999, QuadA)>>,
                  <<Contour(4999, QuadB), Contour(4999, QuadA)>>,
                  <<Contour(5001, QuadA)>>,
                  <<Contour(5001, Triangle)>> }]

Abs(n) == IF n < 0 THEN -n ELSE n

(***************************************************************************)
(* detectPhotoEdges: best-contour selection (dashboard.js 472-494)         *)
(***************************************************************************)
\* One pass of the for loop, from contour i on, with the running
\* largestArea / bestContour.
RECURSIVE ScanContours(_, _, _, _)
ScanContours(contours, i, largestArea, bestContour) ==
    IF i > Len(contours) THEN bestContour
    ELSE LET c == contours[i] IN
         IF c.area > largestArea /\ c.area > edgeMinArea /\ Len(c.approx) = 4
         THEN ScanContours(contours, i + 1, c.area, c.approx)
         ELSE ScanContours(contours, i + 1, largestArea, bestContour)

\* A loop without the minimum-area test of line 480.
RECURSIVE ScanAnyArea(_, _, _, _)
ScanAnyArea(contours, i, largestArea, bestContour) ==
    IF i > Len(contours) THEN bestContour
    ELSE LET c == contours[i] IN
         IF c.area > largestArea /\ Len(c.approx) = 4
         THEN ScanAnyArea(contours, i + 1, c.area, c.approx)
         ELSE ScanAnyArea(contours, i + 1, largestArea, bestContour)

BestContour_NoMinArea(contours) == ScanAnyArea(contours, 1, 0, NoCorners)

\* A loop without the four-vertex test of line 487.
RECURSIVE ScanAnyShape(_, _, _, _)
ScanAnyShape(contours, i, largestArea, bestContour) ==
    IF i > Len(contours) THEN bestContour
    ELSE LET c == contours[i] IN
         IF c.area > largestArea /\ c.area > edgeMinArea
         THEN ScanAnyShape(contours, i + 1, c.area, c.approx)
         ELSE ScanAnyShape(contours, i + 1, largestArea, bestContour)

BestContour_AnyShape(contours) == ScanAnyShape(contours, 1, 0, NoCorners)

\* A loop that compares with >= where line 480 compares with >: of equal
\* areas the last one wins.
RECURSIVE ScanLastWins(_, _, _, _)
ScanLastWins(contours, i, largestArea, bestContour) ==
    IF i > Len(contours) THEN bestContour
    ELSE LET c == contours[i] IN
         IF c.area >= largestArea /\ c.area > edgeMinArea /\ Len(c.approx) = 4
         THEN ScanLastWins(contours, i + 1, c.area, c.approx)
         ELSE ScanLastWins(contours, i + 1, largestArea, bestContour)

BestContour_LastWins(contours) == ScanLastWins(contours, 1, 0, NoCorners)

\* bestContour after the loop (NoCorners: none); extractCorners copies its
\* points.
BestContour(contours) == ScanContours(contours, 1, 0, NoCorners)

(***************************************************************************)
(* analyzeFocus (dashboard.js 1120-1147)                                   *)
(***************************************************************************)
\* A classifier that counts a variance equal to the threshold as in focus.
AnalyzeFocus_AtLeast(variance) == variance >= focusThreshold

\* this.isFocused after analyzeFocus(src), variance being the variance of the
\* Laplacian of src (line 1138).

AnalyzeFocus(variance) == variance > focusThreshold

(***************************************************************************)
(* analyzeMotionAndStability (dashboard.js 1236-1280)                      *)
(***************************************************************************)
Gray(dim, level) == [dim |-> dim, level |-> level]

\* cv.absdiff throws when the two matrices differ in size.
AbsdiffThrows(gray, last) == gray.dim # last.dim

\* sum[0] of cv.sumElems(diff)
MotionLevel(gray, last) == Abs(gray.level - last.level)

HasMotion(motionLevel) == motionLevel > motionThreshold

\* A tracker that compares with > where line 1261 compares with >=: Stable
\* one frame late.
StabilityUpdate_OffByOne(motion, frames, stable) ==
    IF motion
    THEN [stabilityFrames |-> 0, isStable |-> FALSE]
    ELSE [stabilityFrames |-> frames + 1,
          isStable |-> IF frames + 1 > stabilityRequiredFrames
                       THEN TRUE ELSE stable]

\* A tracker whose motion branch resets the counter but not the flag (line
\* 1258 left out).
StabilityUpdate_KeepsFlag(motion, frames, stable) ==
    IF motion
    THEN [stabilityFrames |-> 0, isStable |-> stable]
    ELSE [stabilityFrames |-> frames + 1,
          isStable |-> IF frames + 1 >= stabilityRequiredFrames
                       THEN TRUE ELSE stable]

\* lines 1255-1264: the counter and the Stable flag after a frame difference
StabilityUpdate(motion, frames, stable) ==
    IF motion
    THEN [stabilityFrames |-> 0, isStable |-> FALSE]
    ELSE [stabilityFrames |-> frames + 1,
          isStable |-> IF frames + 1 >= stabilityRequiredFrames
                       THEN TRUE ELSE stable]

\* A tracker whose catch block starts the tracking over.
AnalyzeMotionAndStability_ResetOnError(gray, st) ==
    IF st.lastFrameData # NoFrame
    THEN LET last == st.lastFrameData[1] IN
         IF AbsdiffThrows(gray, last)
         THEN [hasMotion |-> FALSE, stabilityFrames |-> 0,
               isStable |-> FALSE, lastFrameData |-> NoFrame]
         ELSE LET motion == HasMotion(MotionLevel(gray, last))
                  upd == StabilityUpdate(motion, st.stabilityFrames, st.isStable)
              IN [hasMotion |-> motion,
                  stabilityFrames |-> upd.stabilityFrames,
                  isStable |-> upd.isStable,
                  lastFrameData |-> <<gray>>]
    ELSE [st EXCEPT !.lastFrameData = <<gray>>]

\* A variant that treats a missing previous frame as a still frame and counts
\* it.
AnalyzeMotionAndStability_CountsFirstFrame(gray, st) ==
    IF st.lastFrameData # NoFrame
    THEN LET last == st.lastFrameData[1] IN
         IF AbsdiffThrows(gray, last) THEN st
         ELSE LET motion == HasMotion(MotionLevel(gray, last))
                  upd == StabilityUpdate(motion, st.stabilityFrames, st.isStable)
              IN [hasMotion |-> motion,
                  stabilityFrames |-> upd.stabilityFrames,
                  isStable |-> upd.isStable,
                  lastFrameData |-> <<gray>>]
    ELSE LET upd == StabilityUpdate(FALSE, st.stabilityFrames, st.isStable)
         IN [hasMotion |-> FALSE,
             stabilityFrames |-> upd.stabilityFrames,
             isStable |-> upd.isStable,
             lastFrameData |-> <<gray>>]

\* The four fields after analyzeMotionAndStability(src), gray being the
\* grayscale of src.  An exception of cv.absdiff leaves the try block before
\* any field is written, the previous frame included.
AnalyzeMotionAndStability(gray, st) ==
    IF st.lastFrameData # NoFrame
    THEN LET last == st.lastFrameData[1] IN
         IF AbsdiffThrows(gray, last) THEN st
         ELSE LET motion == HasMotion(MotionLevel(gray, last))
                  upd == StabilityUpdate(motion, st.stabilityFrames, st.isStable)
              IN [hasMotion |-> motion,
                  stabilityFrames |-> upd.stabilityFrames,
                  isStable |-> upd.isStable,
                  lastFrameData |-> <<gray>>]
    ELSE [st EXCEPT !.lastFrameData = <<gray>>]

\* The matrices analyzeMotionAndStability(src) has allocated and not deleted
\* when it returns, the frame kept in lastFrameData not counted: gray (1240)
\* and diff (1245) when cv.absdiff throws, since the deletes of 1266 and 1275
\* are inside the try block; none otherwise.
UnreleasedAfterMotion(gray, st) ==
    IF st.lastFrameData # NoFrame /\ AbsdiffThrows(gray, st.lastFrameData[1])
    THEN 2
    ELSE 0

(***************************************************************************)
(* sortCorners (dashboard.js 930-964)                                      *)
(***************************************************************************)
SumX(c) == c[1].x + c[2].x + c[3].x + c[4].x
SumY(c) == c[1].y + c[2].y + c[3].y + c[4].y

\* The vector from the centre (sum / 4) to p, scaled by 4 to stay integral.
FromCentre(c, p) == [dx |-> 4 * p.x - SumX(c), dy |-> 4 * p.y - SumY(c)]

\* Math.atan2(dy, dx) lies in (-pi, pi]: below the x axis, on its positive
\* half (the centre included, atan2(0, 0) = 0), above it, on its negative half.
AngleBand(v) ==
    IF v.dy < 0 THEN 0
    ELSE IF v.dy = 0 /\ v.dx >= 0 THEN 1
    ELSE IF v.dy > 0 THEN 2
    ELSE 3

\* angleA - angleB < 0
AngleLess(va, vb) ==
    \/ AngleBand(va) < AngleBand(vb)
    \/ /\ AngleBand(va) = AngleBand(vb)
       /\ AngleBand(va) \in {0, 2}
       /\ va.dx * vb.dy - va.dy * vb.dx > 0

\* Array.prototype.sort is stable: equal angles keep their input order.
SortByAngle(c) ==
    LET v(i) == FromCentre(c, c[i])
        before(j, i) == \/ AngleLess(v(j), v(i))
                        \/ (~AngleLess(v(i), v(j)) /\ j < i)
        pos(i) == 1 + Cardinality({j \in 1..4 : j # i /\ before(j, i)})
    IN [k \in 1..4 |-> c[CHOOSE i \in 1..4 : pos(i) = k]]

\* lines 946-956: index (1-based) of the first point with the least x + y
TopLeft(sorted) ==
    CHOOSE i \in 1..4 :
        /\ \A j \in 1..4 : sorted[i].x + sorted[i].y <= sorted[j].x + sorted[j].y
        /\ \A j \in 1..(i - 1) : sorted[j].x + sorted[j].y > sorted[i].x + sorted[i].y

\* A sort that returns the angle-sorted list without rotating it to the
\* top-left point (lines 945-961 left out).
sortCorners_NoRotate(corners) == SortByAngle(corners)

sortCorners(corners) ==
    LET sorted == SortByAngle(corners)
        topLeft == TopLeft(sorted)
    IN [k \in 1..4 |-> sorted[((topLeft - 1 + k - 1) % 4) + 1]]

(***************************************************************************)
(* applyPerspectiveCorrection (dashboard.js 867-928)                       *)
(***************************************************************************)
DistSq(p, q) == (p.x - q.x) * (p.x - q.x) + (p.y - q.y) * (p.y - q.y)

Max(a, b) == IF a >= b THEN a ELSE b

\* Math.sqrt is monotone, so the larger side is the one of larger square;
\* the sizes are kept squared.
\* A width taken from the top side alone (width2 of lines 888-889 unused).
OutputWidthSq_TopOnly(s) == DistSq(s[2], s[1])

OutputWidthSq(s) == Max(DistSq(s[2], s[1]), DistSq(s[3], s[4]))
OutputHeightSq(s) == Max(DistSq(s[4], s[1]), DistSq(s[3], s[2]))

NoCanvas == [canvas |-> "none", widthSq |-> 0, heightSq |-> 0]
RawCanvas == [canvas |-> "raw", widthSq |-> 0, heightSq |-> 0]

\* A rectifier without the catch of lines 924-927: an exception of OpenCV
\* leaves capturePhoto without a canvas.
applyPerspectiveCorrection_NoCatch(corners, cvThrows) ==
    IF Len(corners) # 4 THEN RawCanvas
    ELSE IF cvThrows THEN NoCanvas
    ELSE LET sortedCorners == sortCorners(corners) IN
         [canvas |-> "rectified",
          widthSq |-> OutputWidthSq(sortedCorners),
          heightSq |-> OutputHeightSq(sortedCorners)]

\* A rectifier that sizes the output from the corners as given, without
\* sortCorners (line 875 left out).
applyPerspectiveCorrection_Unsorted(corners, cvThrows) ==
    IF Len(corners) # 4 THEN RawCanvas
    ELSE IF cvThrows THEN RawCanvas
    ELSE [canvas |-> "rectified",
          widthSq |-> OutputWidthSq(corners),
          heightSq |-> OutputHeightSq(corners)]

\* The canvas returned.  cvThrows: an OpenCV call inside the try block threw.
\* The function tests nothing about the corners but their number; whether
\* cv.getPerspectiveTransform / cv.warpPerspective throw is OpenCV's choice.
applyPerspectiveCorrection(corners, cvThrows) ==
    IF Len(corners) # 4 THEN RawCanvas
    ELSE IF cvThrows THEN RawCanvas
    ELSE LET sortedCorners == sortCorners(corners) IN
         [canvas |-> "rectified",
          widthSq |-> OutputWidthSq(sortedCorners),
          heightSq |-> OutputHeightSq(sortedCorners)]

VARIABLES
    \* --- constructor fields (dashboard.js 245-268)
    openCVReady, edgeDetectionEnabled, perspectiveCorrectionEnabled,
    detectionInterval, lastDetectedCorners, isFocused, isStable, hasMotion,
    lastFrameData, stabilityFrames, currentStream,
    \* --- browser state the handlers act on
    leakedIntervals,   \* running setInterval timers detectionInterval no longer refers to
    pendingStarts,     \* delayed startEdgeDetection calls (setTimeout 1000) not yet run
    metadataListeners, \* loadedmetadata listeners registered on the video element
    pendingGUM,        \* getUserMedia requests of startCamera not yet settled
    videoDim,          \* video.videoWidth x videoHeight
    metadataPending,   \* srcObject set, loadedmetadata not yet fired
    btnOnclick,        \* startCameraBtn.onclick: "none", "start" or "stop"
    overlay,           \* what is drawn on overlayCanvas
    captureBtnDisabled,
    capStage,          \* capture: "idle", "blob", "upload", "reset"; "failed": idle, the
                       \* last capture ended with an error message
    capCanvas,         \* processedCanvas of the capture in flight
    \* --- rectifier under test (SpecRectify)
    rectInput, rectOutput,
    \* --- contour selection and corner sorting under test (SpecSelect, SpecSort)
    contoursInput,     \* the contours of one frame, in traversal order
    bestOutput,        \* <<>>: not computed; <<b>>: bestContour b after the loop
    sortOutput,        \* <<>>: not computed; else what sortCorners(rectInput) returned
    \* --- history of the run, read by the properties only
    ticksSinceDetection, \* sampled ticks since lastDetectedCorners was assigned
    sessionQuad,         \* a tick of the current session found a quadrilateral
    identicalRun,        \* identical frames analysed since the last motion tick
    \* --- the enhanced camera (enhanced-camera.js, SpecEnhanced)
    captureMode,       \* this.captureMode: "single", "sequential" or "quad"
    modeUI,            \* what updateModeUI last left on the page
    captureAction,     \* the capture method handleCaptureAction last called
    modeCalls,         \* history: the toggle methods called, in order
    ecStream,          \* the enhanced camera's this.currentStream is set
    isFullscreen,
    isCapturing,
    activeCaptures,    \* capture methods past their guard and not yet through
                       \* their finally block
    capturing,         \* the capture method in progress, or "none"
    quadProduced,      \* captureQuadPhotos: quadrant blobs produced
    quadIssued,        \* uploadFileWithQuadrant calls made
    quadSettled,       \* of these, settled
    quadSucceeded,     \* of these, returned true
    captureReport,     \* what the last capture reported: "none", "success",
                       \* "partial" or "error"
    pendingExits,      \* timeouts set to call exitFullScreenCamera
    \* --- the upload form of the dashboard (SpecUpload)
    selectedFiles,     \* this.selectedFiles, the files numbered as they are added
    isUploading,
    batchFiles,        \* the array the for-of loop of handleFormSubmit iterates
    batchAliased,      \* that array is still the one this.selectedFiles refers to
    batchIndex,        \* elements the loop's iterator has passed
    attempted,         \* history: files handed to uploadSingleFile by the loop
    removedFiles,      \* history: files the user removed
    nextFile           \* the number the next file added gets

pipeline == <<lastDetectedCorners, isFocused, isStable, hasMotion,
              lastFrameData, stabilityFrames>>

history == <<ticksSinceDetection, sessionQuad, identicalRun>>

capture == <<captureBtnDisabled, capStage, capCanvas>>

timers == <<detectionInterval, leakedIntervals, pendingStarts>>

rect == <<rectInput, rectOutput>>

probe == <<contoursInput, bestOutput, sortOutput>>

uploadForm == <<selectedFiles, isUploading, batchFiles, batchAliased,
                batchIndex, attempted, removedFiles, nextFile>>

captureRun == <<ecStream, isFullscreen, isCapturing, activeCaptures,
                capturing, quadProduced, quadIssued, quadSettled,
                quadSucceeded, captureReport, pendingExits>>

enhanced == <<captureMode, modeUI, captureAction, modeCalls, captureRun>>

vars == <<openCVReady, edgeDetectionEnabled, perspectiveCorrectionEnabled,
          detectionInterval, lastDetectedCorners, isFocused, isStable,
          hasMotion, lastFrameData, stabilityFrames, currentStream,
          leakedIntervals, pendingStarts, metadataListeners, pendingGUM,
          videoDim, metadataPending, btnOnclick, overlay, captureBtnDisabled,
          capStage, capCanvas, rectInput, rectOutput,
          contoursInput, bestOutput, sortOutput,
          ticksSinceDetection, sessionQuad, identicalRun,
          captureMode, modeUI, captureAction, modeCalls,
          ecStream, isFullscreen, isCapturing, activeCaptures, capturing,
          quadProduced, quadIssued, quadSettled, quadSucceeded,
          captureReport, pendingExits,
          selectedFiles, isUploading, batchFiles, batchAliased, batchIndex,
          attempted, removedFiles, nextFile>>

\* overlayCanvas after clearRect
ClearedOverlay ==
    [quad |-> FALSE, focus |-> FALSE, motion |-> FALSE, badge |-> "none",
     progress |-> 0]

\* The state the constructor leaves (dashboard.js 235-276), openCVReady being
\* FALSE; with TRUE, the state after onOpenCVReady has then run.
Constructed(cvReady) ==
    /\ openCVReady = cvReady
    /\ edgeDetectionEnabled = TRUE
    /\ perspectiveCorrectionEnabled = TRUE
    /\ detectionInterval = FALSE
    /\ lastDetectedCorners = NoCorners
    /\ isFocused = FALSE
    /\ isStable = FALSE
    /\ hasMotion = FALSE
    /\ lastFrameData = NoFrame
    /\ stabilityFrames = 0
    /\ currentStream = Null
    /\ leakedIntervals = 0
    /\ pendingStarts = 0
    /\ metadataListeners = 0
    /\ pendingGUM = 0
    /\ videoDim = NoDim
    /\ metadataPending = FALSE
    /\ btnOnclick = "none"
    /\ overlay = ClearedOverlay
    /\ captureBtnDisabled = FALSE
    /\ capStage = "idle"
    /\ capCanvas = "none"
    /\ ticksSinceDetection = 0
    /\ sessionQuad = FALSE
    /\ identicalRun = -1
    /\ selectedFiles = <<>>
    /\ isUploading = FALSE
    /\ batchFiles = <<>>
    /\ batchAliased = FALSE
    /\ batchIndex = 0
    /\ attempted = {}
    /\ removedFiles = {}
    /\ nextFile = 1

\* The page after updateModeUI (enhanced-camera.js 842-880) for a mode: the
\* multi-photo button active or not, what the mode selector shows, the quad
\* split overlay shown or hidden.  In the sequential branch hideQuadOverlay
\* runs; in single mode the selector is hidden and keeps its text.
UpdateModeUI(mode, ui) ==
    [multiActive |-> mode # "single",
     selectorShown |-> mode # "single",
     selectorText |-> IF mode = "sequential" THEN "Sequential"
                      ELSE IF mode = "quad" THEN "Quad Split"
                      ELSE ui.selectorText,
     quadOverlay |-> mode = "quad"]

\* The enhanced camera after its constructor (enhanced-camera.js 6-41):
\* captureMode 'single' (line 20), then initializeQuadUI (905-910).
EnhancedConstructed ==
    /\ captureMode = "single"
    /\ modeUI = UpdateModeUI("single",
                             [multiActive |-> FALSE, selectorShown |-> FALSE,
                              selectorText |-> "", quadOverlay |-> FALSE])
    /\ captureAction = "none"
    /\ modeCalls = <<>>
    /\ ecStream = FALSE
    /\ isFullscreen = FALSE
    /\ isCapturing = FALSE
    /\ activeCaptures = 0
    /\ capturing = "none"
    /\ quadProduced = 0
    /\ quadIssued = 0
    /\ quadSettled = 0
    /\ quadSucceeded = 0
    /\ captureReport = "none"
    /\ pendingExits = 0

\* Nothing handed to contour selection or corner sorting.
NoProbe ==
    /\ contoursInput = <<>>
    /\ bestOutput = <<>>
    /\ sortOutput = <<>>

Init ==
    /\ Constructed(FALSE)
    /\ EnhancedConstructed
    /\ rectInput = NoCorners
    /\ rectOutput = NoCanvas
    /\ NoProbe

(***************************************************************************)
(* Handlers                                                                *)
(***************************************************************************)
MotionState ==
    [hasMotion |-> hasMotion, stabilityFrames |-> stabilityFrames,
     isStable |-> isStable, lastFrameData |-> lastFrameData]

\* onOpenCVReady (dashboard.js 404-407), called once by the page when
\* OpenCV.js has loaded; window.cv is set from then on.
OnOpenCVReady ==
    /\ ~openCVReady
    /\ openCVReady' = TRUE
    /\ UNCHANGED <<edgeDetectionEnabled, perspectiveCorrectionEnabled, pipeline,
                   currentStream, timers, metadataListeners, pendingGUM,
                   videoDim, metadataPending, btnOnclick, overlay, capture,
                   rect, probe, history,
                   enhanced, uploadForm>>

\* change handler of the autoDetectEdges checkbox (dashboard.js 344-351)
AutoDetectEdgesChange ==
    /\ edgeDetectionEnabled' = ~edgeDetectionEnabled
    /\ overlay' = IF ~edgeDetectionEnabled' THEN ClearedOverlay ELSE overlay
    /\ UNCHANGED <<openCVReady, perspectiveCorrectionEnabled, pipeline,
                   currentStream, timers, metadataListeners, pendingGUM,
                   videoDim, metadataPending, btnOnclick, capture, rect, probe,
                   history,
                   enhanced, uploadForm>>

\* change handler of the perspectiveCorrection checkbox (dashboard.js 353-357)
PerspectiveCorrectionChange ==
    /\ perspectiveCorrectionEnabled' = ~perspectiveCorrectionEnabled
    /\ UNCHANGED <<openCVReady, edgeDetectionEnabled, pipeline, currentStream,
                   timers, metadataListeners, pendingGUM, videoDim,
                   metadataPending, btnOnclick, overlay, capture, rect, probe,
                   history,
                   enhanced, uploadForm>>

\* stopEdgeDetection (dashboard.js 574-580): the interval detectionInterval
\* refers to is cleared, the overlay is cleared.
\* stopCamera (dashboard.js 726-762): stopEdgeDetection, the tracks of
\* currentStream stopped, video.srcObject = null, the capture button hidden,
\* startCameraBtn.onclick = startCamera.  No pipeline field is assigned.
StopCamera ==
    /\ detectionInterval' = FALSE
    /\ overlay' = ClearedOverlay
    /\ currentStream' = Null
    /\ videoDim' = NoDim
    /\ metadataPending' = FALSE
    /\ btnOnclick' = "start"

\* A click on startCameraBtn, enabled only while a camera is selected
\* (onCameraSelected, 642-650).  The click listener of bindCameraEvents (328)
\* runs startCamera up to its await: stopCamera(), then getUserMedia is
\* requested (652-675).  Then the button's onclick handler runs, if one was
\* set before this click: stopCamera has just set it to startCamera (760), so
\* a second startCamera runs up to its await.
StartCameraBtnClick ==
    /\ StopCamera
    /\ pendingGUM' = pendingGUM + (IF btnOnclick = "none" THEN 1 ELSE 2)
    /\ UNCHANGED <<openCVReady, edgeDetectionEnabled,
                   perspectiveCorrectionEnabled, pipeline, leakedIntervals,
                   pendingStarts, metadataListeners, capture, rect, probe,
                   history,
                   enhanced, uploadForm>>

\* startCamera after its await, getUserMedia fulfilled (dashboard.js 675-719):
\* the stream becomes currentStream and the video's source, one more
\* loadedmetadata listener is registered, the capture button is shown.
StartCameraFulfilled(limit) ==
    /\ pendingGUM > 0
    /\ metadataListeners < limit
    /\ pendingGUM' = pendingGUM - 1
    /\ currentStream' = "stream"
    /\ videoDim' = NoDim
    /\ metadataPending' = TRUE
    /\ metadataListeners' = metadataListeners + 1
    /\ btnOnclick' = "stop"
    /\ sessionQuad' = (currentStream # Null /\ sessionQuad)
    /\ UNCHANGED <<openCVReady, edgeDetectionEnabled,
                   perspectiveCorrectionEnabled, pipeline, timers, overlay,
                   capture, rect, probe, ticksSinceDetection, identicalRun,
                   enhanced, uploadForm>>

\* The same, followed for MaxStarts listeners.
StartCameraResolved == StartCameraFulfilled(MaxStarts)

\* startCamera after its await, getUserMedia rejected (dashboard.js 720-723):
\* handleCameraError shows an error.
StartCameraRejected ==
    /\ pendingGUM > 0
    /\ pendingGUM' = pendingGUM - 1
    /\ UNCHANGED <<openCVReady, edgeDetectionEnabled,
                   perspectiveCorrectionEnabled, pipeline, currentStream,
                   timers, metadataListeners, videoDim, metadataPending,
                   btnOnclick, overlay, capture, rect, probe, history,
                   enhanced, uploadForm>>

\* loadedmetadata on the video element: the video now reports its size, and
\* every listener registered so far (dashboard.js 685-707) schedules a delayed
\* startEdgeDetection.
LoadedMetadata(dim) ==
    /\ metadataPending
    /\ metadataPending' = FALSE
    /\ videoDim' = dim
    /\ pendingStarts' = pendingStarts + metadataListeners
    /\ UNCHANGED <<openCVReady, edgeDetectionEnabled,
                   perspectiveCorrectionEnabled, pipeline, currentStream,
                   detectionInterval, leakedIntervals, metadataListeners,
                   pendingGUM, btnOnclick, overlay, capture, rect, probe,
                   history,
                   enhanced, uploadForm>>

\* The timeout of line 704 fires: startEdgeDetection (dashboard.js 410-426).
\* setInterval overwrites detectionInterval; an interval it referred to keeps
\* running.
StartEdgeDetection ==
    /\ pendingStarts > 0
    /\ pendingStarts' = pendingStarts - 1
    /\ IF ~openCVReady \/ ~edgeDetectionEnabled
       THEN UNCHANGED <<detectionInterval, leakedIntervals>>
       ELSE /\ detectionInterval' = TRUE
            /\ leakedIntervals' = leakedIntervals + (IF detectionInterval THEN 1 ELSE 0)
    /\ UNCHANGED <<openCVReady, edgeDetectionEnabled,
                   perspectiveCorrectionEnabled, pipeline, currentStream,
                   metadataListeners, pendingGUM, videoDim, metadataPending,
                   btnOnclick, overlay, capture, rect, probe, history,
                   enhanced, uploadForm>>

\* What drawPhotoOverlay, drawFocusOutline and drawStabilityIndicators draw
\* after clearRect (dashboard.js 496-509, 1283-1383).
DrawnOverlay(found, focused, motion) ==
    [quad |-> found,
     focus |-> focused,
     motion |-> motion.hasMotion,
     badge |-> IF motion.isStable THEN "stable" ELSE "stabilizing",
     progress |-> IF motion.isStable THEN 0
                  ELSE IF motion.stabilityFrames >= stabilityRequiredFrames
                       THEN stabilityRequiredFrames
                       ELSE motion.stabilityFrames]

\* A tick that goes on to its analyses whatever size the video reports.
DetectPhotoEdges_NoSizeTest(frame) ==
    /\ detectionInterval \/ leakedIntervals > 0
    /\ IF ~openCVReady
       THEN UNCHANGED <<pipeline, overlay, history>>
       ELSE LET gray == Gray(videoDim, frame.gray)
                motion == AnalyzeMotionAndStability(gray, MotionState)
                best == BestContour(frame.contours)
                compared == lastFrameData # NoFrame
                               /\ ~AbsdiffThrows(gray, lastFrameData[1])
            IN /\ isFocused' = AnalyzeFocus(frame.variance)
               /\ hasMotion' = motion.hasMotion
               /\ stabilityFrames' = motion.stabilityFrames
               /\ isStable' = motion.isStable
               /\ lastFrameData' = motion.lastFrameData
               /\ lastDetectedCorners' =
                      IF best # NoCorners THEN best ELSE lastDetectedCorners
               /\ overlay' = DrawnOverlay(best # NoCorners, isFocused', motion)
               /\ ticksSinceDetection' =
                      IF best # NoCorners THEN 0
                      ELSE IF lastDetectedCorners = NoCorners THEN 0
                      ELSE IF ticksSinceDetection >= 2 THEN 2
                      ELSE ticksSinceDetection + 1
               /\ sessionQuad' = (sessionQuad \/ best # NoCorners)
               /\ identicalRun' =
                      IF compared /\ motion.hasMotion THEN 0
                      ELSE IF compared /\ lastFrameData[1] = gray
                                /\ identicalRun >= 0
                           THEN identicalRun + 1
                      ELSE -1
    /\ UNCHANGED <<openCVReady, edgeDetectionEnabled,
                   perspectiveCorrectionEnabled, currentStream, timers,
                   metadataListeners, pendingGUM, videoDim, metadataPending,
                   btnOnclick, capture, rect, probe,
                   enhanced, uploadForm>>

\* detectPhotoEdges (dashboard.js 428-522), run by any interval that is still
\* set, on the frame the video shows.  cv.imread of a 0 x 0 canvas throws, and
\* the catch of line 519 ends the tick.
DetectPhotoEdges(frame) ==
    /\ detectionInterval \/ leakedIntervals > 0
    /\ IF ~openCVReady \/ videoDim = NoDim
       THEN UNCHANGED <<pipeline, overlay, history>>
       ELSE LET gray == Gray(videoDim, frame.gray)
                motion == AnalyzeMotionAndStability(gray, MotionState)
                best == BestContour(frame.contours)
                compared == lastFrameData # NoFrame
                               /\ ~AbsdiffThrows(gray, lastFrameData[1])
            IN /\ isFocused' = AnalyzeFocus(frame.variance)
               /\ hasMotion' = motion.hasMotion
               /\ stabilityFrames' = motion.stabilityFrames
               /\ isStable' = motion.isStable
               /\ lastFrameData' = motion.lastFrameData
               /\ lastDetectedCorners' =
                      IF best # NoCorners THEN best ELSE lastDetectedCorners
               /\ overlay' = DrawnOverlay(best # NoCorners, isFocused', motion)
               /\ ticksSinceDetection' =
                      IF best # NoCorners THEN 0
                      ELSE IF lastDetectedCorners = NoCorners THEN 0
                      ELSE IF ticksSinceDetection >= 2 THEN 2
                      ELSE ticksSinceDetection + 1
               /\ sessionQuad' = (sessionQuad \/ best # NoCorners)
               /\ identicalRun' =
                      IF compared /\ motion.hasMotion THEN 0
                      ELSE IF compared /\ lastFrameData[1] = gray
                                /\ identicalRun >= 0
                           THEN identicalRun + 1
                      ELSE -1
    /\ UNCHANGED <<openCVReady, edgeDetectionEnabled,
                   perspectiveCorrectionEnabled, currentStream, timers,
                   metadataListeners, pendingGUM, videoDim, metadataPending,
                   btnOnclick, capture, rect, probe,
                   enhanced, uploadForm>>

\* A capture that does not read the perspectiveCorrection checkbox.
ProcessedCanvas_IgnoresToggle(cvThrows) ==
    IF /\ lastDetectedCorners # NoCorners
       /\ openCVReady
    THEN applyPerspectiveCorrection(lastDetectedCorners, cvThrows).canvas
    ELSE RawCanvas.canvas

\* processedCanvas of capturePhoto (dashboard.js 828-832)
ProcessedCanvas(cvThrows) ==
    IF /\ perspectiveCorrectionEnabled
       /\ lastDetectedCorners # NoCorners
       /\ openCVReady
    THEN applyPerspectiveCorrection(lastDetectedCorners, cvThrows).canvas
    ELSE RawCanvas.canvas

\* A click on captureBtn (dashboard.js 785-833), which is shown while a stream
\* is current and accepts clicks while it is not disabled.  With a 0 x 0
\* video an error is shown and resetCaptureButton (1648-1654) enables the
\* button again.  cvThrows: what OpenCV does inside applyPerspectiveCorrection.
CapturePhoto(cvThrows) ==
    /\ currentStream # Null
    /\ ~captureBtnDisabled
    /\ IF videoDim = NoDim
       THEN /\ capStage' = "failed"
            /\ captureBtnDisabled' = FALSE
            /\ capCanvas' = "none"
       ELSE /\ captureBtnDisabled' = TRUE
            /\ capStage' = "blob"
            /\ capCanvas' = ProcessedCanvas(cvThrows)
    /\ UNCHANGED <<openCVReady, edgeDetectionEnabled,
                   perspectiveCorrectionEnabled, pipeline, currentStream,
                   timers, metadataListeners, pendingGUM, videoDim,
                   metadataPending, btnOnclick, overlay, rect, probe, history,
                   enhanced, uploadForm>>

\* The toBlob callback (dashboard.js 835-846): without a blob an error is
\* shown and the button reset; with one the file goes to uploadSingleFile.
ToBlobCallback(blob) ==
    /\ capStage = "blob"
    /\ IF ~blob
       THEN /\ capStage' = "failed"
            /\ captureBtnDisabled' = FALSE
            /\ capCanvas' = "none"
       ELSE /\ capStage' = "upload"
            /\ UNCHANGED <<captureBtnDisabled, capCanvas>>
    /\ UNCHANGED <<openCVReady, edgeDetectionEnabled,
                   perspectiveCorrectionEnabled, pipeline, currentStream,
                   timers, metadataListeners, pendingGUM, videoDim,
                   metadataPending, btnOnclick, overlay, rect, probe, history,
                   enhanced, uploadForm>>

\* A continuation whose catch shows the error and leaves the button as it is.
UploadSettled_NoResetOnError(ok) ==
    /\ capStage = "upload"
    /\ IF ok
       THEN /\ capStage' = "reset"
            /\ UNCHANGED <<captureBtnDisabled, capCanvas>>
       ELSE /\ capStage' = "failed"
            /\ capCanvas' = "none"
            /\ UNCHANGED captureBtnDisabled
    /\ UNCHANGED <<openCVReady, edgeDetectionEnabled,
                   perspectiveCorrectionEnabled, pipeline, currentStream,
                   timers, metadataListeners, pendingGUM, videoDim,
                   metadataPending, btnOnclick, overlay, rect, probe, history,
                   enhanced, uploadForm>>

\* uploadSingleFile settles (dashboard.js 847-863): fulfilled, the success
\* confirmation is shown and the button reset 1500 ms later; rejected, an
\* error is shown and the button reset at once.
UploadSettled(ok) ==
    /\ capStage = "upload"
    /\ IF ok
       THEN /\ capStage' = "reset"
            /\ UNCHANGED <<captureBtnDisabled, capCanvas>>
       ELSE /\ capStage' = "failed"
            /\ captureBtnDisabled' = FALSE
            /\ capCanvas' = "none"
    /\ UNCHANGED <<openCVReady, edgeDetectionEnabled,
                   perspectiveCorrectionEnabled, pipeline, currentStream,
                   timers, metadataListeners, pendingGUM, videoDim,
                   metadataPending, btnOnclick, overlay, rect, probe, history,
                   enhanced, uploadForm>>

\* The timeout of line 855 fires: resetCaptureButton.
ResetCaptureTimeout ==
    /\ capStage = "reset"
    /\ captureBtnDisabled' = FALSE
    /\ capStage' = "idle"
    /\ capCanvas' = "none"
    /\ UNCHANGED <<openCVReady, edgeDetectionEnabled,
                   perspectiveCorrectionEnabled, pipeline, currentStream,
                   timers, metadataListeners, pendingGUM, videoDim,
                   metadataPending, btnOnclick, overlay, rect, probe, history,
                   enhanced, uploadForm>>

(***************************************************************************)
(* Specifications.  An unbounded counter is capped where the action is     *)
(* used: clicks that would leave more than MaxStarts getUserMedia requests *)
(* pending, and ticks that would count past the limit, are not explored.   *)
(***************************************************************************)
Click == StartCameraBtnClick /\ pendingGUM' <= MaxStarts

Tick(frames, limit) ==
    \E frame \in frames : DetectPhotoEdges(frame) /\ stabilityFrames' <= limit

\* The matrices a tick that samples a frame has allocated and not deleted
\* when it ends: detectPhotoEdges deletes its own (511-517, 493, 500) and
\* analyzeFocus its two (1141-1142); analyzeMotionAndStability catches its
\* exception itself, so the tick goes on to its deletes.
UnreleasedAfterTick(frame) ==
    UnreleasedAfterMotion(Gray(videoDim, frame.gray), MotionState)

\* The fields the three analyses of a tick write, as one record.
PipelineFields ==
    [lastDetectedCorners |-> lastDetectedCorners,
     isFocused |-> isFocused,
     hasMotion |-> hasMotion,
     stabilityFrames |-> stabilityFrames,
     isStable |-> isStable,
     lastFrameData |-> lastFrameData]

\* The contour loop and the assignment of lines 472-501 on the fields st.
EdgeDetection(frame, st) ==
    LET best == BestContour(frame.contours)
    IN IF best # NoCorners THEN [st EXCEPT !.lastDetectedCorners = best]
       ELSE st

\* analyzeFocus(src) (lines 462-465) on the fields st.
FocusAnalysis(frame, st) ==
    [st EXCEPT !.isFocused = AnalyzeFocus(frame.variance)]

\* A motion analysis that is skipped while the frame is out of focus.
MotionAnalysis_WhenFocused(frame, st) ==
    IF ~st.isFocused THEN st
    ELSE LET motion == AnalyzeMotionAndStability(
                           Gray(videoDim, frame.gray),
                           [hasMotion |-> st.hasMotion,
                            stabilityFrames |-> st.stabilityFrames,
                            isStable |-> st.isStable,
                            lastFrameData |-> st.lastFrameData])
         IN [st EXCEPT !.hasMotion = motion.hasMotion,
                       !.stabilityFrames = motion.stabilityFrames,
                       !.isStable = motion.isStable,
                       !.lastFrameData = motion.lastFrameData]

\* analyzeMotionAndStability(src) (lines 467-470) on the fields st.
MotionAnalysis(frame, st) ==
    LET motion == AnalyzeMotionAndStability(
                      Gray(videoDim, frame.gray),
                      [hasMotion |-> st.hasMotion,
                       stabilityFrames |-> st.stabilityFrames,
                       isStable |-> st.isStable,
                       lastFrameData |-> st.lastFrameData])
    IN [st EXCEPT !.hasMotion = motion.hasMotion,
                  !.stabilityFrames = motion.stabilityFrames,
                  !.isStable = motion.isStable,
                  !.lastFrameData = motion.lastFrameData]

\* Every handler, over whole camera sessions.
Next ==
    \/ OnOpenCVReady
    \/ AutoDetectEdgesChange
    \/ PerspectiveCorrectionChange
    \/ Click
    \/ StartCameraResolved
    \/ StartCameraRejected
    \/ \E dim \in SessionDims : LoadedMetadata(dim)
    \/ StartEdgeDetection
    \/ Tick(SessionFrames, MaxSessionFrames)
    \/ \E cvThrows \in BOOLEAN : CapturePhoto(cvThrows)
    \/ \E blob \in BOOLEAN : ToBlobCallback(blob)
    \/ \E ok \in BOOLEAN : UploadSettled(ok)
    \/ ResetCaptureTimeout

Spec == Init /\ [][Next]_vars

\* Motion and stability tracking over camera sessions, from the state in
\* which OpenCV.js has loaded: the camera handlers and the tick, with frames
\* of every gray level and the counter followed past stabilityRequiredFrames.
InitTracker ==
    /\ Constructed(TRUE)
    /\ EnhancedConstructed
    /\ rectInput = NoCorners
    /\ rectOutput = NoCanvas
    /\ NoProbe

NextTracker ==
    \/ Click
    \/ StartCameraResolved
    \/ \E dim \in VideoDims : LoadedMetadata(dim)
    \/ StartEdgeDetection
    \/ Tick(TrackerFrames, MaxStabilityFrames)

SpecTracker == InitTracker /\ [][NextTracker]_vars

\* The rectifier as a function of its corners: any four (or three) points of
\* the grid, and either behaviour of OpenCV.
Rectify(cvThrows) ==
    /\ rectOutput = NoCanvas
    /\ rectOutput' = applyPerspectiveCorrection(rectInput, cvThrows)
    /\ UNCHANGED <<openCVReady, edgeDetectionEnabled,
                   perspectiveCorrectionEnabled, pipeline, currentStream,
                   timers, metadataListeners, pendingGUM, videoDim,
                   metadataPending, btnOnclick, overlay, capture, rectInput,
                   probe, history,
                   enhanced, uploadForm>>

InitRectify ==
    /\ Constructed(FALSE)
    /\ EnhancedConstructed
    /\ rectInput \in CornerInputs
    /\ rectOutput = NoCanvas
    /\ NoProbe

NextRectify == \E cvThrows \in BOOLEAN : Rectify(cvThrows)

SpecRectify == InitRectify /\ [][NextRectify]_vars

\* Motion and stability tracking together with the control and capture
\* handlers.
NextStability ==
    \/ Click
    \/ StartCameraResolved
    \/ \E dim \in VideoDims : LoadedMetadata(dim)
    \/ StartEdgeDetection
    \/ Tick(TrackerFrames, MaxStabilityFrames)
    \/ AutoDetectEdgesChange
    \/ PerspectiveCorrectionChange
    \/ \E cvThrows \in BOOLEAN : CapturePhoto(cvThrows)
    \/ \E blob \in BOOLEAN : ToBlobCallback(blob)
    \/ \E ok \in BOOLEAN : UploadSettled(ok)
    \/ ResetCaptureTimeout

SpecStability == InitTracker /\ [][NextStability]_vars

\* The detection tick over camera sessions, from the state in which
\* OpenCV.js has loaded, on frames whose contours lie around the minimum area.
NextDetect ==
    \/ Click
    \/ StartCameraResolved
    \/ StartCameraRejected
    \/ \E dim \in SessionDims : LoadedMetadata(dim)
    \/ StartEdgeDetection
    \/ Tick(DetectFrames, MaxSessionFrames)

SpecDetect == InitTracker /\ [][NextDetect]_vars

\* The fields of the dashboard uploader, which the enhanced camera does not
\* touch.
dashboard ==
    <<openCVReady, edgeDetectionEnabled, perspectiveCorrectionEnabled,
      pipeline, currentStream, timers, metadataListeners, pendingGUM,
      videoDim, metadataPending, btnOnclick, overlay, capture, rect, probe,
      history, uploadForm>>

\* toggleMultiPhotoMode (enhanced-camera.js 824-831), the click handler of
\* the multi-photo button.
ToggleMultiPhotoMode ==
    /\ Len(modeCalls) < MaxModeCalls
    /\ captureMode' = IF captureMode = "single" THEN "sequential"
                      ELSE "single"
    /\ modeUI' = UpdateModeUI(captureMode', modeUI)
    /\ modeCalls' = Append(modeCalls, "toggleMultiPhotoMode")
    /\ UNCHANGED <<captureAction, captureRun, dashboard>>

\* toggleCaptureMode (enhanced-camera.js 833-840), the click handler of the
\* mode selector.
ToggleCaptureMode ==
    /\ Len(modeCalls) < MaxModeCalls
    /\ captureMode' = IF captureMode = "sequential" THEN "quad"
                      ELSE IF captureMode = "quad" THEN "sequential"
                      ELSE captureMode
    /\ modeUI' = UpdateModeUI(captureMode', modeUI)
    /\ modeCalls' = Append(modeCalls, "toggleCaptureMode")
    /\ UNCHANGED <<captureAction, captureRun, dashboard>>

\* What the finally block of a capture method leaves (572, 957, 1196).
CaptureFinally ==
    /\ isCapturing' = FALSE
    /\ activeCaptures' = activeCaptures - 1
    /\ capturing' = "none"

\* A capture method that starts although a capture is in progress.
CaptureBegins_NoCapturingTest(method, videoReady) ==
    IF ~ecStream \/ ~isFullscreen
    THEN UNCHANGED captureRun
    ELSE /\ quadProduced' = 0
         /\ quadIssued' = 0
         /\ quadSettled' = 0
         /\ quadSucceeded' = 0
         /\ UNCHANGED <<ecStream, isFullscreen, pendingExits>>
         /\ IF method # "captureSequentialPhotos" /\ ~videoReady
            THEN /\ captureReport' = "error"
                 /\ UNCHANGED <<isCapturing, activeCaptures, capturing>>
            ELSE /\ captureReport' = "none"
                 /\ isCapturing' = TRUE
                 /\ activeCaptures' = activeCaptures + 1
                 /\ capturing' = method

\* A capture method up to its first await (capturePhoto 504-536,
\* captureSequentialPhotos 912-923, captureQuadPhotos 1096-1156): nothing
\* without a stream, outside full screen or while a capture is in progress;
\* else isCapturing = true.  capturePhoto and captureQuadPhotos throw 'Video
\* not ready' when the video reports 0 x 0, and the catch and the finally
\* block run at once.
CaptureBegins(method, videoReady) ==
    IF ~ecStream \/ ~isFullscreen \/ isCapturing
    THEN UNCHANGED captureRun
    ELSE /\ quadProduced' = 0
         /\ quadIssued' = 0
         /\ quadSettled' = 0
         /\ quadSucceeded' = 0
         /\ UNCHANGED <<ecStream, isFullscreen, pendingExits>>
         /\ IF method # "captureSequentialPhotos" /\ ~videoReady
            THEN /\ captureReport' = "error"
                 /\ UNCHANGED <<isCapturing, activeCaptures, capturing>>
            ELSE /\ captureReport' = "none"
                 /\ isCapturing' = TRUE
                 /\ activeCaptures' = activeCaptures + 1
                 /\ capturing' = method

\* handleCaptureAction (enhanced-camera.js 882-895): the capture method the
\* switch calls, run up to its first await.
HandleCaptureAction ==
    /\ captureAction' = IF captureMode = "quad" THEN "captureQuadPhotos"
                        ELSE IF captureMode = "sequential"
                             THEN "captureSequentialPhotos"
                             ELSE "capturePhoto"
    /\ \E videoReady \in BOOLEAN : CaptureBegins(captureAction', videoReady)
    /\ UNCHANGED <<captureMode, modeUI, modeCalls, dashboard>>

\* enterFullScreenCamera (327-364) through to its end: startCamera has set
\* currentStream (449) and the video has loaded, then isFullscreen = true
\* (346); when startCamera throws, nothing is entered.
EnterFullScreenCamera(started) ==
    /\ ~isFullscreen
    /\ ecStream' = (ecStream \/ started)
    /\ isFullscreen' = started
    /\ UNCHANGED <<isCapturing, activeCaptures, capturing, quadProduced,
                   quadIssued, quadSettled, quadSucceeded, captureReport,
                   pendingExits>>
    /\ UNCHANGED <<captureMode, modeUI, captureAction, modeCalls, dashboard>>

\* The body of exitFullScreenCamera (366-394): the tracks stopped,
\* currentStream = null, isFullscreen = false.  A capture in progress is left
\* to run.
ExitFullScreen ==
    /\ ecStream' = FALSE
    /\ isFullscreen' = FALSE
    /\ UNCHANGED <<isCapturing, activeCaptures, capturing, quadProduced,
                   quadIssued, quadSettled, quadSucceeded, captureReport>>
    /\ UNCHANGED <<captureMode, modeUI, captureAction, modeCalls, dashboard>>

\* exitFullScreenCamera called by the Escape key (268-270).
ExitFullScreenCamera ==
    /\ isFullscreen
    /\ ExitFullScreen
    /\ UNCHANGED pendingExits

\* exitFullScreenCamera called by a timeout a successful capture has set
\* (560-562, 943-945, 1183-1185).
ExitTimeout ==
    /\ pendingExits > 0
    /\ pendingExits' = pendingExits - 1
    /\ ExitFullScreen

\* capturePhoto (536-573) and captureSequentialPhotos (923-958) from their
\* first await to their end.  capturePhoto: success when the blob was
\* produced and uploadFiles returned true, else an error.
\* captureSequentialPhotos: success with 4 photos captured, a partial result
\* with 1 to 3, an error with none.  Success sets the exit timeout; the
\* finally block runs in every case.
CaptureSettles(outcome) ==
    /\ capturing \in {"capturePhoto", "captureSequentialPhotos"}
    /\ outcome = "partial" => capturing = "captureSequentialPhotos"
    /\ captureReport' = outcome
    /\ pendingExits' = pendingExits + (IF outcome = "success" THEN 1 ELSE 0)
    /\ CaptureFinally
    /\ UNCHANGED <<ecStream, isFullscreen, quadProduced, quadIssued,
                   quadSettled, quadSucceeded>>
    /\ UNCHANGED <<captureMode, modeUI, captureAction, modeCalls, dashboard>>

\* One pass of the quadrant loop of captureQuadPhotos (1140-1170): with a
\* blob, the file is handed to uploadFileWithQuadrant at once (1169), which
\* sends it; without one (null, or the 5 s timeout) the method throws, and
\* the catch (1193-1195) and the finally block run.
QuadBlob(blob) ==
    /\ capturing = "captureQuadPhotos"
    /\ quadProduced < 4
    /\ IF blob
       THEN /\ quadProduced' = quadProduced + 1
            /\ quadIssued' = quadIssued + 1
            /\ UNCHANGED <<isCapturing, activeCaptures, capturing,
                           captureReport>>
       ELSE /\ captureReport' = "error"
            /\ CaptureFinally
            /\ UNCHANGED <<quadProduced, quadIssued>>
    /\ UNCHANGED <<ecStream, isFullscreen, quadSettled, quadSucceeded,
                   pendingExits>>
    /\ UNCHANGED <<captureMode, modeUI, captureAction, modeCalls, dashboard>>

\* uploadFileWithQuadrant (1200-1230) returns: true when the server
\* answered success, false otherwise.  It returns whether or not the capture
\* that called it is still in progress.
UploadFileWithQuadrantSettled(ok) ==
    /\ quadSettled < quadIssued
    /\ quadSettled' = quadSettled + 1
    /\ quadSucceeded' = quadSucceeded + (IF ok THEN 1 ELSE 0)
    /\ UNCHANGED <<ecStream, isFullscreen, isCapturing, activeCaptures,
                   capturing, quadProduced, quadIssued, captureReport,
                   pendingExits>>
    /\ UNCHANGED <<captureMode, modeUI, captureAction, modeCalls, dashboard>>

\* captureQuadPhotos after Promise.allSettled (1173-1197).
QuadAllSettled ==
    /\ capturing = "captureQuadPhotos"
    /\ quadProduced = 4
    /\ quadSettled = quadIssued
    /\ captureReport' = IF quadSucceeded = 4 THEN "success"
                        ELSE IF quadSucceeded > 0 THEN "partial"
                        ELSE "error"
    /\ pendingExits' = pendingExits + (IF quadSucceeded = 4 THEN 1 ELSE 0)
    /\ CaptureFinally
    /\ UNCHANGED <<ecStream, isFullscreen, quadProduced, quadIssued,
                   quadSettled, quadSucceeded>>
    /\ UNCHANGED <<captureMode, modeUI, captureAction, modeCalls, dashboard>>

\* The capture modes of the enhanced camera under any sequence of clicks on
\* its two mode controls and its snap button.
NextEnhanced ==
    \/ ToggleMultiPhotoMode
    \/ ToggleCaptureMode
    \/ HandleCaptureAction

SpecEnhanced == Init /\ [][NextEnhanced]_vars

\* Captures of the enhanced camera in full screen: a new capture is asked
\* for once the uploads of the last one have returned, with at most
\* MaxActiveCaptures in progress and MaxPendingExits exit timeouts pending.
NextCapture ==
    \/ ToggleMultiPhotoMode
    \/ ToggleCaptureMode
    \/ /\ HandleCaptureAction
       /\ quadSettled = quadIssued
       /\ activeCaptures' <= MaxActiveCaptures
    \/ \E started \in BOOLEAN : EnterFullScreenCamera(started)
    \/ ExitFullScreenCamera
    \/ ExitTimeout
    \/ \E outcome \in {"success", "partial", "error"} :
           CaptureSettles(outcome) /\ pendingExits' <= MaxPendingExits
    \/ \E blob \in BOOLEAN : QuadBlob(blob)
    \/ \E ok \in BOOLEAN : UploadFileWithQuadrantSettled(ok)
    \/ QuadAllSettled /\ pendingExits' <= MaxPendingExits

SpecCapture == Init /\ [][NextCapture]_vars

\* Camera starts and stops with overlapping startCamera calls: up to
\* MaxStreams requests pending at once.
NextStreams ==
    \/ StartCameraBtnClick /\ pendingGUM' <= MaxStreams
    \/ StartCameraFulfilled(MaxStreams)
    \/ StartCameraRejected
    \/ \E dim \in SessionDims : LoadedMetadata(dim)
    \/ StartEdgeDetection

SpecStreams == InitTracker /\ [][NextStreams]_vars

\* The capture button over camera sessions.  The browser calls every toBlob
\* callback, settles every upload promise and fires every timeout: each of
\* these continuations is taken once it is enabled.
NextButton ==
    \/ Click
    \/ StartCameraResolved
    \/ StartCameraRejected
    \/ \E dim \in SessionDims : LoadedMetadata(dim)
    \/ PerspectiveCorrectionChange
    \/ \E cvThrows \in BOOLEAN : CapturePhoto(cvThrows)
    \/ \E blob \in BOOLEAN : ToBlobCallback(blob)
    \/ \E ok \in BOOLEAN : UploadSettled(ok)
    \/ ResetCaptureTimeout

SpecButton ==
    /\ InitTracker
    /\ [][NextButton]_vars
    /\ WF_vars(\E blob \in BOOLEAN : ToBlobCallback(blob))
    /\ WF_vars(\E ok \in BOOLEAN : UploadSettled(ok))
    /\ WF_vars(ResetCaptureTimeout)

(***************************************************************************)
(* The upload form (dashboard.js 1418-1439, 1523-1527, 1679-1718)          *)
(***************************************************************************)
\* What the upload form leaves alone.
notUploadForm ==
    <<openCVReady, edgeDetectionEnabled, perspectiveCorrectionEnabled,
      pipeline, currentStream, timers, metadataListeners, pendingGUM,
      videoDim, metadataPending, btnOnclick, overlay, capture, rect, probe,
      history, enhanced>>

\* The sequence s without its element at index.
Splice(s, index) ==
    [i \in 1..(Len(s) - 1) |-> IF i < index THEN s[i] ELSE s[i + 1]]

\* One valid file is added: this.selectedFiles becomes a new array, the old
\* one followed by the file (1432, 1688).  A loop of handleFormSubmit that
\* is running keeps the old array.
AddValidFile ==
    /\ nextFile <= MaxFiles
    /\ selectedFiles' = Append(selectedFiles, nextFile)
    /\ nextFile' = nextFile + 1
    /\ batchAliased' = FALSE
    /\ UNCHANGED <<isUploading, batchFiles, batchIndex, attempted,
                   removedFiles>>
    /\ UNCHANGED notUploadForm

\* handleFileSelection (1418-1439), the change handler of the file input.
HandleFileSelection == AddValidFile

\* The drop handler of setupDragAndDrop (1683-1691).
DropFiles == AddValidFile

\* removeFile(index) (1523-1527), called from a preview's remove button:
\* splice changes the array this.selectedFiles refers to in place, which a
\* running loop may be iterating.
RemoveFile(index) ==
    /\ index \in 1..Len(selectedFiles)
    /\ selectedFiles' = Splice(selectedFiles, index)
    /\ removedFiles' = removedFiles \cup {selectedFiles[index]}
    /\ batchFiles' = IF batchAliased THEN selectedFiles' ELSE batchFiles
    /\ UNCHANGED <<isUploading, batchAliased, batchIndex, attempted, nextFile>>
    /\ UNCHANGED notUploadForm

\* handleFormSubmit (1694-1704) up to its first await: nothing while a batch
\* is uploading or without files; else isUploading = true, the loop starts
\* on this.selectedFiles and hands its first file to uploadSingleFile.
HandleFormSubmit ==
    /\ IF isUploading \/ Len(selectedFiles) = 0
       THEN UNCHANGED uploadForm
       ELSE /\ isUploading' = TRUE
            /\ batchFiles' = selectedFiles
            /\ batchAliased' = TRUE
            /\ batchIndex' = 1
            /\ attempted' = attempted \cup {selectedFiles[1]}
            /\ UNCHANGED <<selectedFiles, removedFiles, nextFile>>
    /\ UNCHANGED notUploadForm

\* uploadSingleFile settles inside the loop (1704-1718), fulfilled or
\* rejected: the iterator moves on in the array it was created on, as long
\* as that array has an element at its position; after the loop
\* isUploading = false and this.selectedFiles = [].
UploadSingleFileSettled ==
    /\ isUploading
    /\ IF batchIndex < Len(batchFiles)
       THEN /\ batchIndex' = batchIndex + 1
            /\ attempted' = attempted \cup {batchFiles[batchIndex + 1]}
            /\ UNCHANGED <<selectedFiles, isUploading, batchFiles,
                           batchAliased, removedFiles, nextFile>>
       ELSE /\ isUploading' = FALSE
            /\ selectedFiles' = <<>>
            /\ batchFiles' = <<>>
            /\ batchAliased' = FALSE
            /\ batchIndex' = 0
            /\ UNCHANGED <<attempted, removedFiles, nextFile>>
    /\ UNCHANGED notUploadForm

\* The upload form under any order of selections, drops, removals, submits
\* and upload results.
NextUpload ==
    \/ HandleFileSelection
    \/ DropFiles
    \/ \E index \in 1..MaxFiles : RemoveFile(index)
    \/ HandleFormSubmit
    \/ UploadSingleFileSettled

SpecUpload == Init /\ [][NextUpload]_vars

\* Contour selection as a function of the contours of one frame.
SelectContour ==
    /\ bestOutput = <<>>
    /\ bestOutput' = <<BestContour(contoursInput)>>
    /\ UNCHANGED <<openCVReady, edgeDetectionEnabled,
                   perspectiveCorrectionEnabled, pipeline, currentStream,
                   timers, metadataListeners, pendingGUM, videoDim,
                   metadataPending, btnOnclick, overlay, capture, rect,
                   contoursInput, sortOutput, history,
                   enhanced, uploadForm>>

InitSelect ==
    /\ Constructed(FALSE)
    /\ EnhancedConstructed
    /\ rectInput = NoCorners
    /\ rectOutput = NoCanvas
    /\ contoursInput \in ContourInputs
    /\ bestOutput = <<>>
    /\ sortOutput = <<>>

NextSelect == SelectContour

SpecSelect == InitSelect /\ [][NextSelect]_vars

\* sortCorners as a function of its corners: any four points of the grid.
SortCorners ==
    /\ sortOutput = <<>>
    /\ sortOutput' = sortCorners(rectInput)
    /\ UNCHANGED <<openCVReady, edgeDetectionEnabled,
                   perspectiveCorrectionEnabled, pipeline, currentStream,
                   timers, metadataListeners, pendingGUM, videoDim,
                   metadataPending, btnOnclick, overlay, capture, rect,
                   contoursInput, bestOutput, history,
                   enhanced, uploadForm>>

InitSort ==
    /\ Constructed(FALSE)
    /\ EnhancedConstructed
    /\ rectInput \in [1..4 -> GridPoints]
    /\ rectOutput = NoCanvas
    /\ NoProbe

NextSort == SortCorners

SpecSort == InitSort /\ [][NextSort]_vars

(***************************************************************************)
(* Properties                                                              *)
(***************************************************************************)
\* A step of detectPhotoEdges that reaches the analyses (a frame was read).
SampledTick ==
    /\ openCVReady
    /\ videoDim # NoDim
    /\ \E frame \in Frames : DetectPhotoEdges(frame)

CaptureStep == \E cvThrows \in BOOLEAN : CapturePhoto(cvThrows)

\* C1 -- stability transition rule: on every tick that has a previous frame,
\* hasMotion true gives counter 0 and Stabilizing; hasMotion false gives the
\* counter + 1 and Stable exactly when the new counter has reached
\* stabilityRequiredFrames.
C1_TransitionRule ==
    [][ (SampledTick /\ lastFrameData # NoFrame) =>
          /\ hasMotion' => (stabilityFrames' = 0 /\ ~isStable')
          /\ ~hasMotion' =>
                /\ stabilityFrames' = stabilityFrames + 1
                /\ isStable' <=> (stabilityFrames' >= stabilityRequiredFrames)
      ]_vars

\* The same rule on the ticks on which the frame difference is computed (the
\* previous frame has the size of the current one).
C1_RuleWhenCompared ==
    [][ (/\ SampledTick
         /\ lastFrameData # NoFrame
         /\ lastFrameData[1].dim = videoDim) =>
          /\ hasMotion' => (stabilityFrames' = 0 /\ ~isStable')
          /\ ~hasMotion' =>
                /\ stabilityFrames' = stabilityFrames + 1
                /\ isStable' <=> (stabilityFrames' >= stabilityRequiredFrames)
      ]_vars

\* A tick with a previous frame of another size left hasMotion false and the
\* counter where it was.
C1_Reached ==
    /\ lastFrameData # NoFrame
    /\ videoDim # NoDim
    /\ lastFrameData[1].dim # videoDim
    /\ overlay.badge = "stabilizing"
    /\ ~hasMotion

\* C2 -- after a motion tick, the k-th frame in a row that is identical to its
\* predecessor leaves Stabilizing for k < stabilityRequiredFrames and Stable
\* from k = stabilityRequiredFrames on; the counter is k.
C2_StableOnRequiredFrame ==
    identicalRun >= 0 =>
        /\ stabilityFrames = identicalRun
        /\ isStable <=> (identicalRun >= stabilityRequiredFrames)

C2_Reached ==
    /\ identicalRun = stabilityRequiredFrames
    /\ isStable
    /\ overlay.badge = "stable"

\* C3 -- capturePhoto rectifies only with a quadrilateral detected in the
\* current or the preceding tick; with an older one the capture is not
\* rectified.
C3_FreshQuadrilateral ==
    [][ CaptureStep =>
          /\ capCanvas' = "rectified" => ticksSinceDetection <= 1
          /\ (videoDim # NoDim /\ ticksSinceDetection >= 2) => capCanvas' = "raw"
      ]_vars

\* C4 -- once stopCamera has returned and until the camera is started again
\* (currentStream is null) no interval and no delayed start is pending, and
\* no tick writes the pipeline state.
C4_StopCancelsDetection ==
    [][ /\ currentStream' = Null =>
            (~detectionInterval' /\ leakedIntervals' = 0 /\ pendingStarts' = 0)
        /\ currentStream = Null => UNCHANGED pipeline
      ]_vars

\* The second half of C4 alone: with the camera off no tick writes the
\* pipeline state.
C4_NoWriteWhileStopped ==
    [][ currentStream = Null => UNCHANGED pipeline ]_vars

\* C5 -- with the camera off or edge detection switched off, a call of
\* detectPhotoEdges updates no state and draws nothing.
C5_NoTickWhenIdle ==
    [][ (/\ \E frame \in Frames : DetectPhotoEdges(frame)
         /\ (currentStream = Null \/ ~edgeDetectionEnabled)) =>
          UNCHANGED <<pipeline, overlay>>
      ]_vars

\* C6 -- a session started after the camera was off begins with no
\* quadrilateral, counter 0, Stabilizing and no previous frame.
C6_FreshSessionState ==
    [][ (StartCameraResolved /\ currentStream = Null) =>
          /\ lastDetectedCorners' = NoCorners
          /\ stabilityFrames' = 0
          /\ ~isStable'
          /\ lastFrameData' = NoFrame
      ]_vars

\* C7 -- while no tick of the session has found a quadrilateral the overlay
\* shows none, and a capture keeps the full unrectified frame.
C7_NoRectangleSession ==
    [][ /\ ~sessionQuad' => ~overlay'.quad
        /\ (CaptureStep /\ ~sessionQuad /\ videoDim # NoDim) => capCanvas' = "raw"
      ]_vars

\* C8 -- a capture with a ready camera and no stored quadrilateral, or with
\* perspective correction off, or before OpenCV is ready, shows no error and
\* passes the unmodified canvas on; that canvas is what reaches the upload.
C8_FallbackIsNotAnError ==
    [][ /\ (/\ CaptureStep
            /\ videoDim # NoDim
            /\ \/ lastDetectedCorners = NoCorners
               \/ ~perspectiveCorrectionEnabled
               \/ ~openCVReady) =>
              (capStage' = "blob" /\ capCanvas' = "raw")
        /\ (capStage = "blob" /\ capStage' = "upload") => capCanvas' = capCanvas
      ]_vars

C8_Reached ==
    /\ capStage = "upload"
    /\ capCanvas = "raw"
    /\ lastDetectedCorners = NoCorners
    /\ perspectiveCorrectionEnabled

Collinear(p, q, r) ==
    (q.x - p.x) * (r.y - p.y) - (q.y - p.y) * (r.x - p.x) = 0

Degenerate(c) ==
    \E i, j, k \in 1..4 :
        i < j /\ j < k /\ Collinear(c[i], c[j], c[k])

\* C10 -- for four degenerate corners applyPerspectiveCorrection returns the
\* original canvas, never a warped one.
C10_DegenerateFallsBack ==
    (/\ rectOutput # NoCanvas
     /\ Len(rectInput) = 4
     /\ Degenerate(rectInput)) => rectOutput.canvas = "raw"

\* C11 -- from the capture request until the image has been handed to the
\* upload (the toBlob callback has not yet run) no detection tick samples a
\* frame.
C11_CapturePausesDetection ==
    [][ capStage = "blob" => ~SampledTick ]_vars

\* A contour that can be chosen: area above the minimum, four vertices.
Qualifies(c) == c.area > edgeMinArea /\ Len(c.approx) = 4

\* C12 -- the quadrilateral chosen is the first, in traversal order, of the
\* contours of largest area among those with area > edgeMinArea and four
\* vertices; none is chosen when no contour qualifies.
C12_LargestQualifyingFirst ==
    bestOutput # <<>> =>
        LET qualifying == {i \in 1..Len(contoursInput) :
                              Qualifies(contoursInput[i])}
        IN IF qualifying = {}
           THEN bestOutput[1] = NoCorners
           ELSE \E i \in qualifying :
                   /\ \A j \in qualifying :
                          contoursInput[j].area <= contoursInput[i].area
                   /\ \A j \in qualifying :
                          j < i => contoursInput[j].area < contoursInput[i].area
                   /\ bestOutput[1] = contoursInput[i].approx

\* two qualifying contours of equal area: the first was chosen
C12_Reached ==
    /\ contoursInput = <<Contour(6000, QuadA), Contour(6000, QuadB)>>
    /\ bestOutput = <<QuadA>>

\* C13 -- a tick on a frame all of whose contours have an area below the
\* minimum draws no photo outline and leaves lastDetectedCorners as it was.
C13_NoQuadBelowMinArea ==
    [][ \A frame \in DetectFrames :
          (/\ openCVReady
           /\ videoDim # NoDim
           /\ DetectPhotoEdges(frame)
           /\ \A i \in 1..Len(frame.contours) :
                  frame.contours[i].area < edgeMinArea) =>
              (lastDetectedCorners' = lastDetectedCorners /\ ~overlay'.quad)
      ]_vars

\* a tick has drawn its indicators on a frame of DetectFrames, none of which
\* is without contours, and no quadrilateral has been stored or drawn
C13_Reached ==
    /\ lastFrameData # NoFrame
    /\ overlay.badge = "stabilizing"
    /\ ~overlay.quad
    /\ lastDetectedCorners = NoCorners

\* The list c rotated left by k places.
Rotate(c, k) == [i \in 1..4 |-> c[((i - 1 + k) % 4) + 1]]

\* C14 -- sortCorners gives the same list for every cyclic rotation of its
\* input, and sorting its output again changes nothing.
C14_RotationInvariantIdempotent ==
    sortOutput # <<>> =>
        /\ \A k \in 1..3 : sortCorners(Rotate(rectInput, k)) = sortOutput
        /\ sortCorners(sortOutput) = sortOutput

\* The four corners of an axis-aligned rectangle, y growing downwards:
\* top-left, top-right, bottom-right, bottom-left.
RectangleCorners(x1, y1, x2, y2) ==
    <<Pt(x1, y1), Pt(x2, y1), Pt(x2, y2), Pt(x1, y2)>>

\* c lists the same points as d, each as often.
SamePoints(c, d) ==
    \A p \in GridPoints :
        Cardinality({i \in 1..4 : c[i] = p}) = Cardinality({i \in 1..4 : d[i] = p})

\* The angles about the centroid of c never decrease along the list r.
AngleSorted(c, r) ==
    \A i, j \in 1..4 :
        i < j => ~AngleLess(FromCentre(c, r[j]), FromCentre(c, r[i]))

\* C15 -- the output of sortCorners is a permutation of its input, a cyclic
\* rotation of an angle-sorted order of it, begins with a point of least
\* x + y, and for the corners of an axis-aligned rectangle in any order is
\* top-left, top-right, bottom-right, bottom-left.
C15_CanonicalOrder ==
    sortOutput # <<>> =>
        /\ SamePoints(sortOutput, rectInput)
        /\ \E k \in 0..3 : AngleSorted(rectInput, Rotate(sortOutput, k))
        /\ \A i \in 1..4 :
               sortOutput[1].x + sortOutput[1].y <= rectInput[i].x + rectInput[i].y
        /\ \A x1, x2, y1, y2 \in 0..MaxCoord :
               (/\ x1 < x2
                /\ y1 < y2
                /\ SamePoints(rectInput, RectangleCorners(x1, y1, x2, y2))) =>
                   sortOutput = RectangleCorners(x1, y1, x2, y2)

\* a rectangle given out of order was put in canonical order
C15_Reached ==
    /\ rectInput = <<Pt(2, 1), Pt(0, 0), Pt(0, 1), Pt(2, 0)>>
    /\ sortOutput = RectangleCorners(0, 0, 2, 1)

\* C16 -- the output width is the larger of the top (corner 0 - corner 1) and
\* bottom (corner 3 - corner 2) sides of the sorted corners and the output
\* height the larger of the left (0 - 3) and right (1 - 2) sides; lengths are
\* compared by their squares.
C16_OutputSizing ==
    rectOutput.canvas = "rectified" =>
        LET s == sortCorners(rectInput)
            top == DistSq(s[1], s[2])
            bottom == DistSq(s[4], s[3])
            left == DistSq(s[1], s[4])
            right == DistSq(s[2], s[3])
        IN /\ rectOutput.widthSq >= top /\ rectOutput.widthSq >= bottom
           /\ rectOutput.widthSq \in {top, bottom}
           /\ rectOutput.heightSq >= left /\ rectOutput.heightSq >= right
           /\ rectOutput.heightSq \in {left, right}

\* a trapezoid whose bottom side (2) is longer than its top side (1) and whose
\* right side is longer than its left side
C16_Reached ==
    /\ rectInput = <<Pt(0, 0), Pt(1, 0), Pt(2, 2), Pt(0, 2)>>
    /\ rectOutput = [canvas |-> "rectified", widthSq |-> 4, heightSq |-> 5]

\* C17 -- for the corners of an axis-aligned square of side d, in any order,
\* the computed output width and height are both d.
C17_SquareStaysSquare ==
    rectOutput.canvas = "rectified" =>
        \A x, y \in 0..MaxCoord, d \in 1..MaxCoord :
            (/\ x + d <= MaxCoord
             /\ y + d <= MaxCoord
             /\ SamePoints(rectInput, RectangleCorners(x, y, x + d, y + d))) =>
                (rectOutput.widthSq = d * d /\ rectOutput.heightSq = d * d)

\* the square of side 2, its corners given diagonal first
C17_Reached ==
    /\ rectInput = <<Pt(2, 2), Pt(0, 0), Pt(2, 0), Pt(0, 2)>>
    /\ rectOutput = [canvas |-> "rectified", widthSq |-> 4, heightSq |-> 4]

\* C18 -- a tick that runs while the video reports 0 x 0 leaves the pipeline
\* state, the overlay and the timers as they were, so the interval goes on
\* ticking.
C18_NotReadySkipsTick ==
    [][ (/\ videoDim = NoDim
         /\ \E frame \in Frames : DetectPhotoEdges(frame)) =>
            UNCHANGED <<pipeline, overlay, timers>>
      ]_vars

\* the video reports 0 x 0 while an interval that stopCamera did not clear
\* is still ticking, with pipeline state written by earlier ticks
C18_Reached ==
    /\ videoDim = NoDim
    /\ leakedIntervals > 0
    /\ lastFrameData # NoFrame
    /\ lastDetectedCorners # NoCorners

\* C19 -- the Stable flag is cleared only by a tick that samples a frame and
\* finds motion; no other tick, capture or control event clears it.
C19_StableUntilMotion ==
    [][ (isStable /\ ~isStable') => (SampledTick /\ hasMotion') ]_vars

\* Stable with the camera stopped after a capture that went to the upload and
\* with both controls switched off
C19_Reached ==
    /\ isStable
    /\ currentStream = Null
    /\ capStage = "upload"
    /\ ~edgeDetectionEnabled
    /\ ~perspectiveCorrectionEnabled

\* C20 -- in every reachable state isStable holds exactly when the counter
\* has reached stabilityRequiredFrames.
C20_StableIffCounter ==
    isStable <=> (stabilityFrames >= stabilityRequiredFrames)

\* Stable with the counter past the required number of frames
C20_Reached ==
    /\ isStable
    /\ stabilityFrames > stabilityRequiredFrames

\* C21 -- a tick that samples a frame while no previous frame is stored
\* leaves hasMotion false and the stability counter and the Stable flag as
\* they were.
C21_FirstTickNoMotion ==
    [][ (SampledTick /\ lastFrameData = NoFrame) =>
          /\ ~hasMotion'
          /\ stabilityFrames' = stabilityFrames
          /\ isStable' = isStable
      ]_vars

\* the state after the first sampled tick: a previous frame of the size of
\* the video is stored, nothing has been counted and no motion is reported
C21_Reached ==
    /\ lastFrameData # NoFrame
    /\ lastFrameData[1].dim = videoDim
    /\ stabilityFrames = 0
    /\ ~hasMotion
    /\ ~isStable
    /\ identicalRun = -1

\* C22 -- after every tick that samples a frame the stored previous frame is
\* the grayscale of that tick's frame, whether or not the frame difference
\* could be computed.
C22_PreviousFrameReplaced ==
    [][ \A frame \in Frames :
          (/\ openCVReady
           /\ videoDim # NoDim
           /\ DetectPhotoEdges(frame)) =>
              lastFrameData' = <<Gray(videoDim, frame.gray)>>
      ]_vars

\* C23 -- a tick that samples a frame without a qualifying quadrilateral,
\* while the overlay shows the quadrilateral of an earlier tick, leaves the
\* quadrilateral on the overlay.
C23_OverlayHoldsLastQuad ==
    [][ \A frame \in DetectFrames :
          (/\ openCVReady
           /\ videoDim # NoDim
           /\ overlay.quad
           /\ BestContour(frame.contours) = NoCorners
           /\ DetectPhotoEdges(frame)) =>
              overlay'.quad
      ]_vars

\* C24 -- on every tick that samples a frame, what the overlay shows comes
\* from that tick's frame: the focus outline is drawn exactly when the
\* frame's Laplacian variance is above focusThreshold, and the motion badge
\* and the Stable badge are drawn only when the tick compared its frame with
\* the previous one and found motion, respectively no motion.
C24_OverlayFromThisTick ==
    [][ \A frame \in TrackerFrames :
          (/\ openCVReady
           /\ videoDim # NoDim
           /\ DetectPhotoEdges(frame)) =>
              LET gray == Gray(videoDim, frame.gray)
                  compared == /\ lastFrameData # NoFrame
                              /\ ~AbsdiffThrows(gray, lastFrameData[1])
                  moved == HasMotion(MotionLevel(gray, lastFrameData[1]))
              IN /\ overlay'.focus = AnalyzeFocus(frame.variance)
                 /\ overlay'.motion => (compared /\ moved)
                 /\ overlay'.badge = "stable" => (compared /\ ~moved)
      ]_vars

\* C25 -- after every tick that samples a frame, isFocused is true exactly
\* when the Laplacian variance of that frame is strictly greater than
\* focusThreshold; a variance equal to the threshold is out of focus.
C25_FocusedIffAboveThreshold ==
    [][ \A frame \in DetectFrames :
          (/\ openCVReady
           /\ videoDim # NoDim
           /\ DetectPhotoEdges(frame)) =>
              /\ isFocused' <=> (frame.variance > focusThreshold)
              /\ (frame.variance = focusThreshold) => ~isFocused'
      ]_vars

\* a tick on a sharp frame has run: in focus, the outline drawn
C25_Reached ==
    /\ isFocused
    /\ overlay.focus
    /\ lastFrameData # NoFrame
    /\ videoDim # NoDim

\* C26 -- whenever lastDetectedCorners is non-null it has exactly 4 points
\* and is the polygon of a contour whose area is above the minimum area.
C26_StoredQuadQualifies ==
    lastDetectedCorners # NoCorners =>
        /\ Len(lastDetectedCorners) = 4
        /\ \E frame \in DetectFrames :
               \E i \in 1..Len(frame.contours) :
                   /\ frame.contours[i].approx = lastDetectedCorners
                   /\ frame.contours[i].area > edgeMinArea

\* a quadrilateral has been stored and is kept while the camera is stopped
C26_Reached ==
    /\ lastDetectedCorners = QuadA
    /\ currentStream = Null
    /\ ~overlay.quad

\* C27 -- at the end of every tick that samples a frame, every matrix the
\* tick allocated has been deleted, the frame kept in lastFrameData
\* excepted.
C27_TickReleasesBuffers ==
    [][ \A frame \in TrackerFrames :
          (/\ openCVReady
           /\ videoDim # NoDim
           /\ DetectPhotoEdges(frame)) =>
              UnreleasedAfterTick(frame) = 0
      ]_vars

\* C28 -- the three analyses of a tick are independent: edge detection
\* changes only lastDetectedCorners, focus analysis only isFocused, motion
\* analysis only hasMotion, stabilityFrames, isStable and lastFrameData, and
\* applied in any of the six orders they give the fields the tick leaves.
C28_AnalysesCommute ==
    [][ \A frame \in DetectFrames :
          (/\ openCVReady
           /\ videoDim # NoDim
           /\ DetectPhotoEdges(frame)) =>
              LET st == PipelineFields
                  e == EdgeDetection(frame, st)
                  f == FocusAnalysis(frame, st)
                  m == MotionAnalysis(frame, st)
              IN /\ e = [st EXCEPT !.lastDetectedCorners = e.lastDetectedCorners]
                 /\ f = [st EXCEPT !.isFocused = f.isFocused]
                 /\ m.lastDetectedCorners = st.lastDetectedCorners
                 /\ m.isFocused = st.isFocused
                 /\ EdgeDetection(frame, FocusAnalysis(frame, m)) = PipelineFields'
                 /\ EdgeDetection(frame, MotionAnalysis(frame, f)) = PipelineFields'
                 /\ FocusAnalysis(frame, EdgeDetection(frame, m)) = PipelineFields'
                 /\ FocusAnalysis(frame, MotionAnalysis(frame, e)) = PipelineFields'
                 /\ MotionAnalysis(frame, EdgeDetection(frame, f)) = PipelineFields'
                 /\ MotionAnalysis(frame, FocusAnalysis(frame, e)) = PipelineFields'
      ]_vars

\* ticks on which all three analyses wrote: a quadrilateral stored, in focus
\* and motion found against the previous frame
C28_Reached ==
    /\ lastDetectedCorners = QuadA
    /\ overlay.quad
    /\ isFocused
    /\ hasMotion
    /\ overlay.motion
    /\ lastFrameData # NoFrame

\* C29 -- the enhanced camera has only the Single and Quad Split modes:
\* after any sequence of toggleMultiPhotoMode and toggleCaptureMode calls
\* captureMode is 'single' or 'quad'.
C29_SingleOrQuadOnly ==
    captureMode \in {"single", "quad"}

\* C30 -- at most one detection interval is active at any time and
\* detectionInterval refers to it: no interval is ticking that
\* stopEdgeDetection would not clear.
C30_AtMostOneInterval ==
    leakedIntervals = 0

\* C31 -- a click on the button while the camera is running (the button
\* reads 'Stop Camera', nothing else pending) stops the camera: the click
\* leaves currentStream null and no detection interval active, and requests
\* no stream whose arrival would start the camera again.
C31_StopClickStops ==
    [][ (/\ btnOnclick = "stop"
         /\ currentStream # Null
         /\ pendingGUM = 0
         /\ StartCameraBtnClick) =>
            /\ currentStream' = Null
            /\ pendingGUM' = 0
            /\ ~detectionInterval'
            /\ leakedIntervals' = 0
      ]_vars

\* C32 -- no stream leaks: when a getUserMedia request of startCamera is
\* fulfilled and its stream becomes currentStream, no other stream is current
\* whose tracks were not stopped.
C32_NoStreamOverwritten ==
    [][ StartCameraFulfilled(MaxStreams) => currentStream = Null ]_vars

\* C33 -- detection runs when it can: when the camera is running with its
\* metadata loaded, edge detection is enabled, OpenCV is ready and no start
\* is pending any more, a detection interval is active (so ticks go on being
\* executed), in whatever order the three came about.
C33_DetectionRunsWhenItCan ==
    (/\ currentStream # Null
     /\ videoDim # NoDim
     /\ edgeDetectionEnabled
     /\ openCVReady
     /\ pendingGUM = 0
     /\ pendingStarts = 0) =>
        (detectionInterval \/ leakedIntervals > 0)

\* C34 -- captures of the enhanced camera are mutually exclusive: at most
\* one capture method is in progress at any time, isCapturing is true
\* exactly while one is, and it is false again once the capture has ended,
\* however it ended.
C34_OneCaptureAtATime ==
    /\ activeCaptures <= 1
    /\ isCapturing <=> (activeCaptures = 1)
    /\ (capturing = "none") <=> (activeCaptures = 0)

\* a quad capture has ended by throwing after its first upload was sent, and
\* isCapturing is false again in full screen
C34_Reached ==
    /\ captureAction = "captureQuadPhotos"
    /\ captureReport = "error"
    /\ quadIssued > 0
    /\ isFullscreen
    /\ ~isCapturing

\* C35 -- when a quad capture ends: full success is reported and the exit
\* scheduled only with four successful uploads; with 1 to 3 a partial result
\* is reported and no exit scheduled; with none an error is reported; and
\* uploads were sent only if all four quadrant images were produced.
C35_QuadOutcome ==
    [][ (capturing = "captureQuadPhotos" /\ capturing' = "none") =>
          /\ (captureReport' = "success" \/ pendingExits' > pendingExits) =>
                quadSucceeded' = 4
          /\ quadSucceeded' \in 1..3 =>
                (captureReport' = "partial" /\ pendingExits' = pendingExits)
          /\ quadSucceeded' = 0 => captureReport' = "error"
          /\ quadIssued' > 0 => quadProduced' = 4
      ]_vars

\* C36 -- the capture button is always re-enabled: whenever capturePhoto has
\* left the button disabled, the button is eventually enabled again, whether
\* the blob fails, the upload fails or the upload succeeds.
C36_ButtonReenabled ==
    captureBtnDisabled ~> ~captureBtnDisabled

\* a capture that had disabled the button has ended with an error message
\* and the button is enabled, the camera still running
C36_Reached ==
    /\ capStage = "failed"
    /\ ~captureBtnDisabled
    /\ currentStream # Null
    /\ videoDim # NoDim
    /\ metadataListeners = 1

\* C37 -- no selected file is dropped without an upload attempt: every file
\* added to selectedFiles has been handed to uploadSingleFile by
\* handleFormSubmit, or is still in selectedFiles, or was removed by the
\* user.
C37_NoFileDropped ==
    \A file \in 1..(nextFile - 1) :
        \/ file \in attempted
        \/ file \in removedFiles
        \/ \E i \in 1..Len(selectedFiles) : selectedFiles[i] = file

====
